---------------------------- MODULE Spec2Model ----------------------------
(***************************************************************************)
(* Model of src/src/perfect-tournament-creator.ts: one process that loads  *)
(* a settings file and a state file, checks the per-day guard, builds the  *)
(* 7-day Day/Night schedule, submits the 14 tournaments one after the      *)
(* other with a delay in between, and writes both files back.  The model   *)
(* runs main() several times in sequence; the wall clock may move to the   *)
(* next UTC day at any moment.                                             *)
(***************************************************************************)
EXTENDS Integers, Sequences, FiniteSets, TLC

(***************************************************************************)
(* Bounds of the model.                                                    *)
(***************************************************************************)
\* how many times main() is started
MaxRuns == 3
\* how many times the UTC date changes
MaxTicks == 2

(***************************************************************************)
(* Program constants.                                                      *)
(***************************************************************************)
\* for (let dayOffset = 0; dayOffset < 7; dayOffset++)
HorizonDays == 7
\* setTimeout(resolve, 10000)
DelayMs == 10000

(***************************************************************************)
(* JavaScript values that a number-typed field can hold at run time.       *)
(***************************************************************************)
Num(n) == [tag |-> "number", n |-> n]
Undefined == [tag |-> "undefined", n |-> 0]
Null == [tag |-> "null", n |-> 0]
NaN == [tag |-> "NaN", n |-> 0]

IsNum(v) == v.tag = "number"

\* a variant of JsAdd that subtracts
JsSub(v, k) ==
  CASE v.tag = "number" -> Num(v.n - k)
    [] v.tag = "null" -> Num(0 - k)
    [] OTHER -> NaN

\* v + k for an integer k (ToNumber: undefined -> NaN, null -> 0)
JsAdd(v, k) ==
  CASE v.tag = "number" -> Num(v.n + k)
    [] v.tag = "null" -> Num(k)
    [] OTHER -> NaN

\* Math.max(...vs) over a non-empty sequence: NaN if any argument is NaN
JsMax(vs) ==
  IF \E k \in 1..Len(vs) : ~IsNum(vs[k])
  THEN NaN
  ELSE Num(CHOOSE m \in {vs[k].n : k \in 1..Len(vs)} :
             \A k \in 1..Len(vs) : vs[k].n <= m)

\* JSON.stringify followed by JSON.parse of one property value: NaN is
\* written as null, an undefined property is left out (and reads back
\* as undefined).
JsonRoundTrip(v) == IF v.tag = "NaN" THEN Null ELSE v

(***************************************************************************)
(* UTC calendar arithmetic of Date: a day is counted from 1970-01-01.      *)
(***************************************************************************)
DaysFromCivil(y, m, d) ==
  LET yy == IF m <= 2 THEN y - 1 ELSE y
      era == yy \div 400
      yoe == yy - era * 400
      mp == IF m > 2 THEN m - 3 ELSE m + 9
      doy == (153 * mp + 2) \div 5 + d - 1
      doe == yoe * 365 + yoe \div 4 - yoe \div 100 + doy
  IN era * 146097 + doe - 719468

CivilFromDays(z) ==
  LET zz == z + 719468
      era == zz \div 146097
      doe == zz - era * 146097
      yoe == (doe - doe \div 1460 + doe \div 36524 - doe \div 146096) \div 365
      doy == doe - (365 * yoe + yoe \div 4 - yoe \div 100)
      mp == (5 * doy + 2) \div 153
      d == doy - (153 * mp + 2) \div 5 + 1
      m == IF mp < 10 THEN mp + 3 ELSE mp - 9
      y == yoe + era * 400 + (IF m <= 2 THEN 1 ELSE 0)
  IN <<y, m, d>>

\* now.toISOString().split('T')[0]: the date as year, month, day
TodayOf(now) == CivilFromDays(now)

\* createTournamentDate(year, month, day, hour, 0): Date.UTC normalises
\* the fields to an instant (counted in hours here); toISOString prints
\* it as year, month, day, hour, minute.  An undefined hour makes the
\* time value NaN and toISOString throws a RangeError (null counts as 0).
CreateThrows(hour) == hour.tag \in {"undefined", "NaN"}

createTournamentDate(year, month, day, hour) ==
  LET hours == DaysFromCivil(year, month, day) * 24 + hour.n
      ymd == CivilFromDays(hours \div 24)
  IN <<ymd[1], ymd[2], ymd[3], hours % 24, 0>>

\* buildTournamentName(dayNum, type)
buildTournamentName(dayNum, type) == <<"LMAO", type, dayNum>>


(***************************************************************************)
(* Strings are sequences of one-character strings.                         *)
(***************************************************************************)
Letters ==
  {"a","b","c","d","e","f","g","h","i","j","k","l","m","n","o","p","q","r",
   "s","t","u","v","w","x","y","z","A","B","C","D","E","F","G","H","I","J",
   "K","L","M","N","O","P","Q","R","S","T","U","V","W","X","Y","Z"}
Digits == {"0","1","2","3","4","5","6","7","8","9"}
\* the character class [a-zA-Z0-9_-]
TokenChars == Letters \cup Digits \cup {"_", "-"}
Whitespace == {" ", "\t", "\n", "\r"}

\* token.trim() === ""
TrimIsEmpty(s) == \A k \in 1..Len(s) : s[k] \in Whitespace

\* s.includes(sub)
Includes(s, sub) ==
  \E k \in 0..(Len(s) - Len(sub)) :
    \A j \in 1..Len(sub) : s[k + j] = sub[j]

\* /^[a-zA-Z0-9_-]+$/.test(s)
TokenRegexTest(s) == Len(s) >= 1 /\ \A k \in 1..Len(s) : s[k] \in TokenChars

\* a variant of validateOAuthToken that accepts a token of length 10
validateOAuthTokenTenChars(token) ==
  /\ ~(Len(token) = 0 \/ TrimIsEmpty(token))
  /\ ~Includes(token, <<"*","*","*">>)
  /\ ~Includes(token, <<"Y","O","U","R","_","T","O","K","E","N">>)
  /\ ~Includes(token, <<"P","L","A","C","E","H","O","L","D","E","R">>)
  /\ TokenRegexTest(token)
  /\ Len(token) >= 10

validateOAuthToken(token) ==
  /\ ~(Len(token) = 0 \/ TrimIsEmpty(token))
  /\ ~Includes(token, <<"*","*","*">>)
  /\ ~Includes(token, <<"Y","O","U","R","_","T","O","K","E","N">>)
  /\ ~Includes(token, <<"P","L","A","C","E","H","O","L","D","E","R">>)
  /\ TokenRegexTest(token)
  /\ Len(token) > 10

(***************************************************************************)
(* The environment of one run: OAUTH_TOKEN and DRY_RUN.                    *)
(***************************************************************************)
EnvUnset == [set |-> FALSE, s |-> <<>>]
EnvStr(s) == [set |-> TRUE, s |-> s]

ValidToken == <<"l","i","p","_","a","B","3","-","x","y","Z","9">>
ShortToken == <<"l","i","p","_","a","b","c">>

TokenInputs == {EnvUnset, EnvStr(<<>>), EnvStr(ShortToken), EnvStr(ValidToken)}
DryRunInputs == {EnvUnset, EnvStr(<<"1">>), EnvStr(<<"t","r","u","e">>)}

\* a variant of TokenMissing that lets the empty string through
TokenMissingUnsetOnly(tok) == ~tok.set

\* !oauthToken
TokenMissing(tok) == ~tok.set \/ Len(tok.s) = 0

\* process.env.DRY_RUN === '1' || process.env.DRY_RUN === 'true'
IsDryRun(v) == v.set /\ (v.s = <<"1">> \/ v.s = <<"t","r","u","e">>)

(***************************************************************************)
(* The two files.  kind says what readFileSync and JSON.parse make of the  *)
(* file: "absent" (readFileSync throws), "garbage" (JSON.parse throws),    *)
(* "null" (the JSON value null) or "object".  The fields of an object are  *)
(* JavaScript values; a field the object lacks is Undefined.               *)
(***************************************************************************)
HostTeam == "lmao-teamfights"
NoHost == "undefined"

SettingsFile(kind, host, dayNum, dayHour, nightHour) ==
  [kind |-> kind, hostTeamId |-> host, lastTournamentDayNum |-> dayNum,
   dayStartHour |-> dayHour, nightStartHour |-> nightHour]

SettingsObject(host, dayNum, dayHour, nightHour) ==
  SettingsFile("object", host, dayNum, dayHour, nightHour)

SettingsOther(kind) ==
  SettingsFile(kind, NoHost, Undefined, Undefined, Undefined)

\* lastCreationDate: Undefined, or a string; the string is "" (the empty
\* sequence) or a date <<year, month, day>>
NoDate == [tag |-> "undefined", d |-> <<>>]
DateStr(d) == [tag |-> "string", d |-> d]

StateFile(kind, date) == [kind |-> kind, lastCreationDate |-> date]
StateObject(date) == StateFile("object", date)
StateOther(kind) == StateFile(kind, NoDate)

\* The well-formed settings of the model: counter 4, so the next
\* tournament is number 5.
GoodSettings == SettingsObject(HostTeam, Num(4), Num(8), Num(20))

SettingsInputs ==
  { SettingsOther("absent"), SettingsOther("garbage"), SettingsOther("null"),
    GoodSettings,
    SettingsObject(HostTeam, Undefined, Num(8), Num(20)),
    SettingsObject(NoHost, Num(4), Num(8), Num(20)),
    SettingsObject(HostTeam, Num(4), Undefined, Num(20)) }

StateInputs(day) ==
  { StateOther("absent"), StateOther("garbage"), StateOther("null"),
    StateObject(NoDate), StateObject(DateStr(TodayOf(day))) }

\* The day on which the first run may start: the end of a leap-year
\* February, so that the 7-day horizon crosses a month boundary.
StartDays == {DaysFromCivil(2024, 2, 26)}


(***************************************************************************)
(* The schedule (main, lines 171-203).                                     *)
(***************************************************************************)
\* a variant of TournamentType that pushes Night before Day
TournamentTypeNightFirst(k) == IF k % 2 = 1 THEN "Night" ELSE "Day"

TournamentType(k) == IF k % 2 = 1 THEN "Day" ELSE "Night"

DayOffset(k) == (k - 1) \div 2

\* targetDate.setUTCDate(targetDate.getUTCDate() + dayOffset), then
\* getUTCFullYear(), getUTCMonth() + 1, getUTCDate()
TargetDate(now, dayOffset) ==
  LET t == CivilFromDays(now)
  IN CivilFromDays(DaysFromCivil(t[1], t[2], t[3] + dayOffset))

StartHour(s, type) ==
  IF type = "Day" THEN s.dayStartHour ELSE s.nightStartHour

\* the k-th element pushed to tournaments (k = 1..14)
Definition(s, now, k) ==
  LET nextDayNum == JsAdd(s.lastTournamentDayNum, 1)
      tournamentDayNum == JsAdd(nextDayNum, DayOffset(k))
      target == TargetDate(now, DayOffset(k))
      type == TournamentType(k)
  IN [name |-> buildTournamentName(tournamentDayNum, type),
      startDateISO |-> createTournamentDate(target[1], target[2], target[3],
                                            StartHour(s, type)),
      dayNum |-> tournamentDayNum,
      type |-> type]

Schedule(s, now) == [k \in 1..(2 * HorizonDays) |-> Definition(s, now, k)]

\* what lines 171-203 throw: a TypeError when settings is null (line 172),
\* a RangeError from toISOString when a start hour is not a number
ScheduleThrows(s) ==
  \/ s.kind = "null"
  \/ CreateThrows(s.dayStartHour)
  \/ CreateThrows(s.nightStartHour)

(***************************************************************************)
(* createTeamBattle (lines 60-137).  resp is what the server does with the *)
(* request, if one is sent.                                                *)
(***************************************************************************)
Server == "https://lichess.org"

Responses ==
  {"created-id", "created-location", "created-bare", "created-badjson",
   "rejected", "neterror"}

\* further answers, for calls from outside main
AllResponses ==
  Responses \cup {"created-id-location", "created-null", "rejected-500"}

\* What fetch brings back.  throws: fetch rejects (no connection); status
\* and text: the status line and the body as text; json: what res.json()
\* makes of the body, "object", "null" or "unparseable"; id: the id of the
\* JSON object, "" if it has none; location: the Location header, "" if
\* there is none.
Answer(throws, status, text, json, id, location) ==
  [throws |-> throws, status |-> status, text |-> text, json |-> json,
   id |-> id, location |-> location]

Response(resp) ==
  CASE resp = "neterror" ->
         Answer(TRUE, 0, "", "unparseable", "", "")
    [] resp = "rejected" ->
         Answer(FALSE, 429, "Too Many Requests", "unparseable", "", "")
    [] resp = "rejected-500" ->
         Answer(FALSE, 500, "Internal Server Error", "unparseable", "", "")
    [] resp = "created-badjson" ->
         Answer(FALSE, 200, "<html>", "unparseable", "", "")
    [] resp = "created-id" ->
         Answer(FALSE, 200, "{id}", "object", "Xy7bQ2mZ", "")
    [] resp = "created-id-location" ->
         Answer(FALSE, 201, "{id}", "object", "Xy7bQ2mZ",
                "/tournament/Xy7bQ2mZ")
    [] resp = "created-location" ->
         Answer(FALSE, 201, "{}", "object", "", "/tournament/Xy7bQ2mZ")
    [] resp = "created-null" ->
         Answer(FALSE, 200, "null", "null", "", "")
    [] OTHER ->
         Answer(FALSE, 200, "{}", "object", "", "")

Ok(url, http) == [ok |-> TRUE, url |-> url, error |-> <<>>, http |-> http]
Fail(error, http) == [ok |-> FALSE, url |-> <<>>, error |-> error, http |-> http]
NoResult == [ok |-> FALSE, url |-> <<>>, error |-> <<>>, http |-> FALSE]

PendingUrl(server, host) == <<server, "/team/", host, "/arena/pending">>

\* a variant of InvitedTeams that keeps the host team
InvitedTeamsWithHost(teams, host) ==
  SelectSeq(teams, LAMBDA t : t # NoHost /\ t # "")

\* params.teams.filter((t) => t && t !== params.hostTeamId)
InvitedTeams(teams, host) ==
  SelectSeq(teams, LAMBDA t : t # NoHost /\ t # "" /\ t # host)

\* The form (lines 80-96), a sequence of <<field, value>>: of the eight
\* fields of the constructor the two that differ between the tournaments
\* of a run, then teamBattleByTeam, then one teams[] per invited team.
RequestBody(p) ==
  LET invitedTeams == InvitedTeams(p.teams, p.hostTeamId)
  IN <<<<"name", p.name>>, <<"startDate", p.startDateISO>>,
       <<"teamBattleByTeam", p.hostTeamId>>>>
     \o [k \in 1..Len(invitedTeams) |-> <<"teams[]", invitedTeams[k]>>]

\* res.ok
ResOk(status) == status \in 200..299

\* data?.id ? `${server}/tournament/${data.id}`
\*          : res.headers.get('Location') || 'unknown'
CreatedUrl(server, res) ==
  IF res.json = "object" /\ res.id # ""
  THEN <<server, "/tournament/", res.id>>
  ELSE IF res.location # "" THEN <<res.location>> ELSE <<"unknown">>

\* a variant of Fetch that prefers the Location header to the id
FetchLocationFirst(p, resp) ==
  LET res == Response(resp)
  IN IF res.throws THEN Fail(<<"FetchError">>, TRUE)
     ELSE IF ~ResOk(res.status)
          THEN Fail(<<ToString(res.status), ": ", res.text>>, TRUE)
          ELSE IF res.json = "unparseable"
               THEN Fail(<<"SyntaxError">>, TRUE)
               ELSE Ok(IF res.location # "" THEN <<res.location>>
                       ELSE CreatedUrl(p.server, res), TRUE)

\* lines 106-136: the POST and the handling of its response; String(error)
\* is the name of the error
Fetch(p, resp) ==
  LET res == Response(resp)
  IN IF res.throws THEN Fail(<<"FetchError">>, TRUE)
     ELSE IF ~ResOk(res.status)
          THEN Fail(<<ToString(res.status), ": ", res.text>>, TRUE)
          ELSE IF res.json = "unparseable"
               THEN Fail(<<"SyntaxError">>, TRUE)
               ELSE Ok(CreatedUrl(p.server, res), TRUE)

\* a variant of createTeamBattle that does not look at the token
createTeamBattleUnchecked(p, resp) ==
  IF p.dryRun
  THEN Ok(PendingUrl(p.server, p.hostTeamId), FALSE)
  ELSE Fetch(p, resp)

\* a variant of createTeamBattle without the dry-run branch
createTeamBattleNoDryRun(p, resp) ==
  IF ~validateOAuthToken(p.token)
  THEN Fail(<<"Invalid or missing OAuth token.">>, FALSE)
  ELSE Fetch(p, resp)

createTeamBattle(p, resp) ==
  IF ~validateOAuthToken(p.token)
  THEN Fail(<<"Invalid or missing OAuth token.">>, FALSE)
  ELSE IF p.dryRun
       THEN Ok(PendingUrl(p.server, p.hostTeamId), FALSE)
       ELSE Fetch(p, resp)


(***************************************************************************)
(* State.                                                                  *)
(***************************************************************************)
VARIABLES
  clock,            \* the current UTC day (days since 1970-01-01)
  ticks,            \* how often the date has changed
  settingsFile,     \* config/tournament-settings.json
  stateFile,        \* config/perfect-tournament.state.json
  runs,             \* how many runs of main() have started
  pc,               \* where main() stands
  env,              \* process.env of the run
  settings,         \* main: settings
  state,            \* main: state
  now,              \* main: now (its UTC day)
  tournaments,      \* main: tournaments
  i,                \* main: loop index
  successCount,     \* main: successCount
  failureCount,     \* main: failureCount
  result,           \* main: result of the last createTeamBattle
  exitCode,         \* exit code of the process, -1 while it runs
  hist,             \* what the run has done so far (observation only)
  probe,            \* one created tournament, remembered across runs
  dupSeen,          \* a tournament of probe's type and start was created again
  call              \* the last direct call of an exported function

vars == <<clock, ticks, settingsFile, stateFile, runs, pc, env, settings,
          state, now, tournaments, i, successCount, failureCount, result,
          exitCode, hist, probe, dupSeen, call>>

\* no direct call has been made
NoParams ==
  [server |-> "", token |-> <<>>, name |-> <<>>, startDateISO |-> <<>>,
   hostTeamId |-> "", teams |-> <<>>, dryRun |-> FALSE]
NoCall == [fn |-> "none", token |-> <<>>, valid |-> FALSE, p |-> NoParams,
           resp |-> "", body |-> <<>>, ret |-> NoResult]

DefaultState == StateObject(DateStr(<<>>))

\* the observations of a run that has just started
FreshHist(sf, tf, day) ==
  [preSettings |-> sf, preState |-> tf, startDay |-> day,
   lastName |-> <<>>, lastStart |-> <<>>,
   guard |-> "none", thrown |-> "none",
   submitted |-> 0, http |-> 0, delays |-> 0, delayedBefore |-> FALSE,
   settingsWrites |-> 0, stateWrites |-> 0,
   started |-> 0, inFlight |-> 0, oks |-> 0, waited |-> 0, lastBody |-> <<>>,
   killedAt |-> "none",
   prevZero |-> FALSE, prevDayNums |-> <<>>, usedUpTo |-> 0]

Init ==
  /\ clock \in StartDays
  /\ ticks = 0
  /\ settingsFile \in SettingsInputs
  /\ stateFile \in StateInputs(clock)
  /\ runs = 0
  /\ pc = "idle"
  /\ env = [OAUTH_TOKEN |-> EnvUnset, DRY_RUN |-> EnvUnset]
  /\ settings = SettingsOther("absent")
  /\ state = DefaultState
  /\ now = 0
  /\ tournaments = <<>>
  /\ i = 0
  /\ successCount = 0
  /\ failureCount = 0
  /\ result = NoResult
  /\ exitCode = -1
  /\ hist = FreshHist(settingsFile, stateFile, clock)
  /\ probe = <<>>
  /\ dupSeen = FALSE
  /\ call = NoCall

(***************************************************************************)
(* The catch of main (lines 269-272): log and process.exit(1).             *)
(***************************************************************************)
FatalExit == 1

(***************************************************************************)
(* The date changes.  A run reads the date once (line 162), so a change    *)
(* during a run is not told apart from one after it: the model lets the    *)
(* date change between runs.                                               *)
(***************************************************************************)
Tick ==
  /\ pc \in {"idle", "exited", "killed"}
  /\ ticks < MaxTicks
  /\ ticks' = ticks + 1
  /\ clock' = clock + 1
  /\ UNCHANGED <<settingsFile, stateFile, runs, pc, env, settings, state, now,
                 tournaments, i, successCount, failureCount, result, exitCode,
                 hist, probe, dupSeen, call>>


(***************************************************************************)
(* main, lines 139-148: the credential, the settings, the dry-run flag.    *)
(***************************************************************************)
\* readJSON throws: readFileSync on a missing file, JSON.parse on bad text
ReadThrows(file) == file.kind \in {"absent", "garbage"}

\* a variant of MaxDayNum that takes the first dayNum
FirstDayNum(ts) == ts[1].dayNum

\* Math.max(...tournaments.map(t => t.dayNum)) (line 251)
MaxDayNum(ts) == JsMax([k \in 1..Len(ts) |-> ts[k].dayNum])

\* what the run that has just ended leaves to the observations of the next
\* one: whether it ran to its end without a success, or with one, and the
\* numbers it submitted
EndedNormally ==
  pc = "exited" /\ hist.guard = "passed" /\ hist.thrown = "none"
EndedWithout == EndedNormally /\ successCount = 0
EndedWith == EndedNormally /\ successCount > 0
DayNums == [k \in 1..Len(tournaments) |-> tournaments[k].dayNum]
LargestDayNum ==
  LET ns == {DayNums[k].n : k \in {j \in 1..Len(DayNums) : IsNum(DayNums[j])}}
  IN IF ns = {} THEN 0 ELSE CHOOSE m \in ns : \A n \in ns : n <= m

Begin(tok, dry) ==
  /\ pc \in {"idle", "exited", "killed"}
  /\ runs < MaxRuns
  /\ runs' = runs + 1
  /\ env' = [OAUTH_TOKEN |-> tok, DRY_RUN |-> dry]
  /\ state' = DefaultState
  /\ now' = 0
  /\ tournaments' = <<>>
  /\ i' = 0
  /\ successCount' = 0
  /\ failureCount' = 0
  /\ result' = NoResult
  /\ LET h == [FreshHist(settingsFile, stateFile, clock) EXCEPT
                 !.prevZero = EndedWithout,
                 !.prevDayNums = IF EndedWithout THEN DayNums ELSE <<>>,
                 !.usedUpTo = IF EndedWith /\ LargestDayNum > hist.usedUpTo
                              THEN LargestDayNum ELSE hist.usedUpTo]
     IN IF TokenMissing(tok) \/ ReadThrows(settingsFile)
        THEN /\ pc' = "exited"
             /\ exitCode' = FatalExit
             /\ settings' = SettingsOther("absent")
             /\ hist' = [h EXCEPT !.thrown =
                           IF TokenMissing(tok) THEN "token" ELSE "settings"]
        ELSE /\ pc' = "loadState"
             /\ exitCode' = -1
             /\ settings' = settingsFile
             /\ hist' = h
  /\ UNCHANGED <<clock, ticks, settingsFile, stateFile, probe, dupSeen, call>>

(***************************************************************************)
(* main, lines 150-160: the state file, or the default state.              *)
(***************************************************************************)
LoadedState(file) == IF ReadThrows(file) THEN DefaultState ELSE file

LoadState ==
  /\ pc = "loadState"
  /\ state' = LoadedState(stateFile)
  /\ pc' = "guard"
  /\ UNCHANGED <<clock, ticks, settingsFile, stateFile, runs, env, settings,
                 now, tournaments, i, successCount, failureCount, result,
                 exitCode, hist, probe, dupSeen, call>>

(***************************************************************************)
(* main, lines 162-169: today, and the guard.  Reading a property of null  *)
(* throws a TypeError, which the catch of main turns into exit 1.          *)
(***************************************************************************)
GuardThrows(st) == st.kind = "null"

\* a variant of GuardHit that never skips
GuardHitNever(st, today) == FALSE

GuardHit(st, today) == st.lastCreationDate = DateStr(today)

GuardCheck ==
  /\ pc = "guard"
  /\ now' = clock
  /\ IF GuardThrows(state)
     THEN /\ pc' = "exited"
          /\ exitCode' = FatalExit
          /\ hist' = [hist EXCEPT !.thrown = "state"]
     ELSE IF GuardHit(state, TodayOf(clock))
          THEN /\ pc' = "exited"
               /\ exitCode' = 0
               /\ hist' = [hist EXCEPT !.guard = "hit"]
          ELSE /\ pc' = "schedule"
               /\ exitCode' = exitCode
               /\ hist' = [hist EXCEPT !.guard = "passed"]
  /\ UNCHANGED <<clock, ticks, settingsFile, stateFile, runs, env, settings,
                 state, tournaments, i, successCount, failureCount, result,
                 probe, dupSeen, call>>

(***************************************************************************)
(* main, lines 220-223: the delay before every submission but the first.   *)
(* The result of the previous iteration is out of scope by then.           *)
(***************************************************************************)
\* a variant of NeedsDelay that also skips the delay of the second iteration
NeedsDelayFromThird(k) == k > 1

\* if (i > 0)
NeedsDelay(k) == k > 0

(***************************************************************************)
(* main, lines 171-210: the schedule and the counters.                     *)
(***************************************************************************)
Scheduling ==
  /\ pc = "schedule"
  /\ IF ScheduleThrows(settings)
     THEN /\ pc' = "exited"
          /\ exitCode' = FatalExit
          /\ hist' = [hist EXCEPT !.thrown = "schedule"]
          /\ tournaments' = tournaments
     ELSE /\ pc' = IF NeedsDelay(0) THEN "delay" ELSE "submit"
          /\ exitCode' = exitCode
          /\ hist' = hist
          /\ tournaments' = Schedule(settings, now)
  /\ i' = 0
  /\ successCount' = 0
  /\ failureCount' = 0
  /\ UNCHANGED <<clock, ticks, settingsFile, stateFile, runs, env, settings,
                 state, now, result, probe, dupSeen, call>>

(***************************************************************************)
(* The delay itself: 10 seconds (line 222).                                *)
(***************************************************************************)
Delay ==
  /\ pc = "delay"
  /\ pc' = "submit"
  /\ hist' = [hist EXCEPT !.delays = @ + 1, !.delayedBefore = TRUE,
                          !.waited = @ + DelayMs]
  /\ result' = NoResult
  /\ UNCHANGED <<clock, ticks, settingsFile, stateFile, runs, env, settings,
                 state, now, tournaments, i, successCount, failureCount,
                 exitCode, probe, dupSeen, call>>

(***************************************************************************)
(* main, lines 225-248: one submission and its tally.                      *)
(***************************************************************************)
Params(t) ==
  [server |-> Server, token |-> env.OAUTH_TOKEN.s, name |-> t.name,
   startDateISO |-> t.startDateISO, hostTeamId |-> settings.hostTeamId,
   teams |-> <<settings.hostTeamId>>, dryRun |-> IsDryRun(env.DRY_RUN)]

\* the tournament the server created, if it created one
Created(t, r) == r.ok /\ r.http

\* main reaches `await createTeamBattle(...)` (line 225): the call is in
\* flight until its promise settles
Await ==
  /\ pc = "submit"
  /\ pc' = "await"
  /\ hist' = [hist EXCEPT !.started = @ + 1, !.inFlight = @ + 1]
  /\ UNCHANGED <<clock, ticks, settingsFile, stateFile, runs, env, settings,
                 state, now, tournaments, i, successCount, failureCount,
                 result, exitCode, probe, dupSeen, call>>

\* lines 241-247: the tally of one result
SuccessesAfter(count, r) == IF r.ok THEN count + 1 ELSE count
FailuresAfter(count, r) == IF r.ok THEN count ELSE count + 1

\* a variant of AfterSubmit that leaves the loop at the first failure
AfterSubmitAbort(k, n, r) ==
  IF k < n /\ r.ok THEN (IF NeedsDelay(k) THEN "delay" ELSE "submit")
  ELSE "finalize"

\* a variant of AfterSubmit that leaves the loop after 7 iterations
AfterSubmitHalfway(k, n, r) ==
  IF k < n /\ k < HorizonDays
  THEN (IF NeedsDelay(k) THEN "delay" ELSE "submit")
  ELSE "finalize"

\* the for loop (line 213) once iteration k - 1 is done: the next
\* iteration, with its delay, or the end of the loop
AfterSubmit(k, n, r) ==
  IF k < n THEN (IF NeedsDelay(k) THEN "delay" ELSE "submit")
  ELSE "finalize"

\* the form createTeamBattle has built when it returns: none if the token
\* failed validation (line 77)
BodyBuilt(p) == IF validateOAuthToken(p.token) THEN RequestBody(p) ELSE <<>>

\* the promise settles: the result and its tally
Submit(resp, adopt) ==
  /\ pc = "await"
  /\ LET t == tournaments[i + 1]
         r == createTeamBattle(Params(t), resp)
         key == <<t.type, t.startDateISO>>
     IN /\ result' = r
        /\ successCount' = SuccessesAfter(successCount, r)
        /\ failureCount' = FailuresAfter(failureCount, r)
        /\ hist' = [hist EXCEPT !.submitted = @ + 1,
                                !.lastName = Params(t).name,
                                !.lastStart = Params(t).startDateISO,
                                !.http = IF r.http THEN @ + 1 ELSE @,
                                !.delayedBefore = FALSE,
                                !.inFlight = @ - 1,
                                !.oks = IF r.ok THEN @ + 1 ELSE @,
                                !.lastBody = BodyBuilt(Params(t))]
        /\ probe' = IF Created(t, r) /\ probe = <<>> /\ adopt
                    THEN <<key>> ELSE probe
        /\ dupSeen' = (dupSeen \/ (Created(t, r) /\ probe = <<key>>))
        /\ pc' = AfterSubmit(i + 1, Len(tournaments), r)
  /\ i' = i + 1
  /\ UNCHANGED <<clock, ticks, settingsFile, stateFile, runs, env, settings,
                 state, now, tournaments, exitCode, call>>

(***************************************************************************)
(* main, lines 250-258: the new counter and date, and the two writes.      *)
(***************************************************************************)
\* a variant of ShouldPersist that writes after every run
ShouldPersistAlways(successes) == successes >= 0

ShouldPersist(successes) == successes > 0

Finalizing ==
  /\ pc = "finalize"
  /\ IF ShouldPersist(successCount)
     THEN /\ settings' = [settings EXCEPT
                            !.lastTournamentDayNum = MaxDayNum(tournaments)]
          /\ state' = [state EXCEPT !.lastCreationDate = DateStr(TodayOf(now))]
          /\ pc' = "writeSettings"
     ELSE /\ settings' = settings
          /\ state' = state
          /\ pc' = "summary"
  /\ result' = NoResult
  /\ UNCHANGED <<clock, ticks, settingsFile, stateFile, runs, env, now,
                 tournaments, i, successCount, failureCount, exitCode,
                 hist, probe, dupSeen, call>>

\* writeJSON: what a later readJSON gets back from JSON.stringify(data)
Serialized(s) ==
  [s EXCEPT !.lastTournamentDayNum = JsonRoundTrip(s.lastTournamentDayNum)]

WriteSettings ==
  /\ pc = "writeSettings"
  /\ settingsFile' = Serialized(settings)
  /\ hist' = [hist EXCEPT !.settingsWrites = @ + 1]
  /\ pc' = "writeState"
  /\ UNCHANGED <<clock, ticks, stateFile, runs, env, settings, state, now,
                 tournaments, i, successCount, failureCount, result, exitCode,
                 probe, dupSeen, call>>

WriteState ==
  /\ pc = "writeState"
  /\ stateFile' = state
  /\ hist' = [hist EXCEPT !.stateWrites = @ + 1]
  /\ pc' = "summary"
  /\ UNCHANGED <<clock, ticks, settingsFile, runs, env, settings, state, now,
                 tournaments, i, successCount, failureCount, result, exitCode,
                 probe, dupSeen, call>>

(***************************************************************************)
(* main, lines 260-267: the summary and the exit code.                     *)
(***************************************************************************)
ExitCodeOf(failures) == IF failures > 0 THEN 1 ELSE 0

Summary ==
  /\ pc = "summary"
  /\ exitCode' = ExitCodeOf(failureCount)
  /\ pc' = "exited"
  /\ UNCHANGED <<clock, ticks, settingsFile, stateFile, runs, env, settings,
                 state, now, tournaments, i, successCount, failureCount,
                 result, hist, probe, dupSeen, call>>

Next ==
  \/ Tick
  \/ \E tok \in TokenInputs, dry \in DryRunInputs : Begin(tok, dry)
  \/ LoadState
  \/ GuardCheck
  \/ Scheduling
  \/ Delay
  \/ Await
  \/ \E resp \in Responses : Submit(resp, FALSE)
  \/ Finalizing
  \/ WriteSettings
  \/ WriteState
  \/ Summary

Spec == Init /\ [][Next]_vars

(***************************************************************************)
(* The same program, started with well-formed settings and no state file,  *)
(* with one of the created tournaments remembered in probe.                *)
(***************************************************************************)
InitProbe ==
  /\ Init
  /\ settingsFile = GoodSettings
  /\ stateFile = StateOther("absent")

NextProbe ==
  \/ Tick
  \/ \E tok \in TokenInputs, dry \in DryRunInputs : Begin(tok, dry)
  \/ LoadState
  \/ GuardCheck
  \/ Scheduling
  \/ Delay
  \/ Await
  \/ \E resp \in Responses, adopt \in BOOLEAN : Submit(resp, adopt)
  \/ Finalizing
  \/ WriteSettings
  \/ WriteState
  \/ Summary

SpecProbe == InitProbe /\ [][NextProbe]_vars


(***************************************************************************)
(* The same program in an environment that fails: the process is killed    *)
(* at any point of a run, and writeFileSync (writeJSON, lines 28-30)       *)
(* throws, which the catch of main turns into exit 1.  A write that is cut *)
(* short, by the kill or by the error, leaves either the old content or a  *)
(* truncated file that JSON.parse rejects.  What the killed process held   *)
(* in memory is gone.                                                      *)
(***************************************************************************)
Running == pc \notin {"idle", "exited", "killed"}

Kill(torn) ==
  /\ Running
  /\ torn => pc \in {"writeSettings", "writeState"}
  /\ pc' = "killed"
  /\ settingsFile' = IF torn /\ pc = "writeSettings"
                     THEN SettingsOther("garbage") ELSE settingsFile
  /\ stateFile' = IF torn /\ pc = "writeState"
                  THEN StateOther("garbage") ELSE stateFile
  /\ hist' = [hist EXCEPT
                !.killedAt = pc,
                !.settingsWrites = IF torn /\ pc = "writeSettings"
                                   THEN @ + 1 ELSE @,
                !.stateWrites = IF torn /\ pc = "writeState"
                                THEN @ + 1 ELSE @]
  /\ settings' = SettingsOther("absent")
  /\ state' = DefaultState
  /\ now' = 0
  /\ tournaments' = <<>>
  /\ i' = 0
  /\ successCount' = 0
  /\ failureCount' = 0
  /\ result' = NoResult
  /\ UNCHANGED <<clock, ticks, runs, env, exitCode, probe, dupSeen, call>>

WriteSettingsFails(torn) ==
  /\ pc = "writeSettings"
  /\ settingsFile' = IF torn THEN SettingsOther("garbage") ELSE settingsFile
  /\ hist' = [hist EXCEPT !.thrown = "write",
                          !.settingsWrites = IF torn THEN @ + 1 ELSE @]
  /\ pc' = "exited"
  /\ exitCode' = FatalExit
  /\ UNCHANGED <<clock, ticks, stateFile, runs, env, settings, state, now,
                 tournaments, i, successCount, failureCount, result,
                 probe, dupSeen, call>>

WriteStateFails(torn) ==
  /\ pc = "writeState"
  /\ stateFile' = IF torn THEN StateOther("garbage") ELSE stateFile
  /\ hist' = [hist EXCEPT !.thrown = "write",
                          !.stateWrites = IF torn THEN @ + 1 ELSE @]
  /\ pc' = "exited"
  /\ exitCode' = FatalExit
  /\ UNCHANGED <<clock, ticks, settingsFile, runs, env, settings, state, now,
                 tournaments, i, successCount, failureCount, result,
                 probe, dupSeen, call>>

\* the inputs of a run in the failing environment: a token that validates
\* and one that does not, a real and a dry run, a created tournament, a
\* rejected request and a network error
FaultTokens == {EnvStr(ShortToken), EnvStr(ValidToken)}
FaultDryRuns == {EnvUnset, EnvStr(<<"1">>)}
FaultResponses == {"created-id", "rejected", "neterror"}

NextFaults ==
  \/ Tick
  \/ \E tok \in FaultTokens, dry \in FaultDryRuns : Begin(tok, dry)
  \/ LoadState
  \/ GuardCheck
  \/ Scheduling
  \/ Delay
  \/ Await
  \/ \E resp \in FaultResponses : Submit(resp, FALSE)
  \/ Finalizing
  \/ WriteSettings
  \/ WriteState
  \/ Summary
  \/ \E torn \in BOOLEAN : Kill(torn)
  \/ \E torn \in BOOLEAN : WriteSettingsFails(torn)
  \/ \E torn \in BOOLEAN : WriteStateFails(torn)

\* the failing environment is explored from the settings files that load
\* and build a schedule: the other ones never reach a write
InitFaults ==
  /\ Init
  /\ settingsFile \in {GoodSettings,
                       SettingsObject(HostTeam, Undefined, Num(8), Num(20))}

SpecFaults == InitFaults /\ [][NextFaults]_vars

(***************************************************************************)
(* The exported functions called directly, outside main: the caller picks  *)
(* the arguments.  main stays idle; a behaviour makes one call, and call   *)
(* holds it and what it returned.                                          *)
(***************************************************************************)
MaxAffix == 2

\* characters a token string is put together from: allowed ones, a blank,
\* a star and a character outside the class
TokenAlphabet == {"a", "Z", "7", "_", "-", " ", "*", "!"}

Affixes(n) == UNION {[1..m -> TokenAlphabet] : m \in 0..n}

Stars == <<"*","*","*">>
YourToken == <<"Y","O","U","R","_","T","O","K","E","N">>
Placeholder == <<"P","L","A","C","E","H","O","L","D","E","R">>
NineChars == <<"l","i","p","_","a","B","3","-","x">>
EighteenChars ==
  <<"a","b","c","d","e","f","g","h","i","j","0","1","2","3","4","5","6","7">>
TwentyChars == EighteenChars \o <<"Q","R">>

TokenCores ==
  {<<>>, Stars, YourToken, Placeholder, NineChars, EighteenChars, TwentyChars}

\* the strings a caller passes as a token
TokenStrings ==
  {pre \o core \o post : pre \in Affixes(MaxAffix), core \in TokenCores,
                         post \in Affixes(1)}

mainVars == <<clock, ticks, settingsFile, stateFile, runs, pc, env, settings,
              state, now, tournaments, i, successCount, failureCount, result,
              exitCode, hist, probe, dupSeen>>

CallValidate(token) ==
  /\ call = NoCall
  /\ call' = [NoCall EXCEPT !.fn = "validateOAuthToken", !.token = token,
                            !.valid = validateOAuthToken(token)]
  /\ UNCHANGED mainVars

MaxTeams == 3

TeamNames == {"", HostTeam, "team-a", "team-b"}
TeamLists == UNION {[1..m -> TeamNames] : m \in 0..MaxTeams}

\* the arguments a caller passes to createTeamBattle
CallParams ==
  [server : {Server},
   token : {<<>>, ShortToken, ValidToken, YourToken \o <<"a", "b">>},
   name : {buildTournamentName(Num(5), "Day")},
   startDateISO : {<<2024, 2, 26, 8, 0>>},
   hostTeamId : {HostTeam, "team-a"},
   teams : TeamLists,
   dryRun : BOOLEAN]

CallCreateTeamBattle(p, resp) ==
  /\ call = NoCall
  /\ call' = [fn |-> "createTeamBattle", token |-> p.token,
              valid |-> validateOAuthToken(p.token), p |-> p, resp |-> resp,
              body |-> BodyBuilt(p), ret |-> createTeamBattle(p, resp)]
  /\ UNCHANGED mainVars

InitCalls ==
  /\ Init
  /\ settingsFile = GoodSettings
  /\ stateFile = StateOther("absent")

NextCalls ==
  \/ /\ call = NoCall
     /\ \E token \in TokenStrings : CallValidate(token)
  \/ /\ call = NoCall
     /\ \E p \in CallParams, resp \in AllResponses :
          CallCreateTeamBattle(p, resp)

SpecCalls == InitCalls /\ [][NextCalls]_vars


(***************************************************************************)
(* Vocabulary of the properties.  hist holds what the current run did and  *)
(* what the files held when it started.                                    *)
(***************************************************************************)
Exited == pc = "exited"

NoSubmission == hist.submitted = 0 /\ hist.delays = 0 /\ hist.http = 0

NoWrite ==
  /\ hist.settingsWrites = 0
  /\ hist.stateWrites = 0
  /\ settingsFile = hist.preSettings
  /\ stateFile = hist.preState

\* the date of the run, as the guard computes it
RunToday == TodayOf(hist.startDay)

\* OAUTH_TOKEN is absent or empty
NoToken == ~env.OAUTH_TOKEN.set \/ env.OAUTH_TOKEN.s = <<>>

\* readJSON returns a value for the settings file
SettingsLoad == hist.preSettings.kind \in {"null", "object"}

\* the state file holds a record whose lastCreationDate is the run's date
StateIsToday ==
  /\ hist.preState.kind = "object"
  /\ hist.preState.lastCreationDate = DateStr(RunToday)

\* all 14 definitions have been submitted
LoopDone == hist.guard = "passed" /\ hist.submitted = 2 * HorizonDays

\* the counter the run started from is a number
CounterIsNumber == IsNum(hist.preSettings.lastTournamentDayNum)

\* the files as a run with a success leaves them
Advanced ==
  /\ settingsFile.kind = "object"
  /\ IsNum(settingsFile.lastTournamentDayNum)
  /\ settingsFile.lastTournamentDayNum.n =
       hist.preSettings.lastTournamentDayNum.n + HorizonDays
  /\ \A k \in 1..Len(tournaments) :
       tournaments[k].dayNum.n <= settingsFile.lastTournamentDayNum.n
  /\ \E k \in 1..Len(tournaments) :
       tournaments[k].dayNum.n = settingsFile.lastTournamentDayNum.n
  /\ stateFile = StateObject(DateStr(RunToday))

(***************************************************************************)
(* C1 as stated: a run that starts with a loadable settings file and a     *)
(* state file dated today submits nothing, writes nothing and exits 0.     *)
(***************************************************************************)
C1_AsStated ==
  (Exited /\ SettingsLoad /\ StateIsToday)
    => (NoSubmission /\ NoWrite /\ exitCode = 0)

(***************************************************************************)
(* C1 amended: a run that starts with a non-empty OAUTH_TOKEN, a loadable  *)
(* settings file and a state file dated today never leaves the guard for   *)
(* the schedule, submits nothing, delays nothing, writes neither file and  *)
(* exits 0.                                                                *)
(***************************************************************************)
C1_GuardIdempotent ==
  (runs > 0 /\ ~NoToken /\ SettingsLoad /\ StateIsToday)
    => /\ NoSubmission
       /\ NoWrite
       /\ pc \in {"loadState", "guard", "exited"}
       /\ Exited => (exitCode = 0 /\ hist.guard = "hit")

C1_Witness ==
  /\ Exited /\ hist.guard = "hit" /\ exitCode = 0
  /\ ~NoToken /\ SettingsLoad /\ StateIsToday

(***************************************************************************)
(* C2: in a run that passed the guard, started from a numeric counter and  *)
(* submitted all 14 definitions, the files are written only if             *)
(* successCount > 0; after the run the counter is then the largest dayNum  *)
(* of the 14 definitions (the old counter + 7) and lastCreationDate is the *)
(* run's date; with successCount = 0 both files keep their content.        *)
(***************************************************************************)
C2_Finalizing ==
  /\ (hist.settingsWrites > 0 \/ hist.stateWrites > 0
        \/ stateFile # hist.preState \/ settingsFile # hist.preSettings)
       => (LoopDone /\ successCount > 0)
  /\ (Exited /\ LoopDone /\ CounterIsNumber)
       => IF successCount > 0 THEN Advanced ELSE NoWrite

C2_Witness ==
  /\ Exited /\ LoopDone /\ CounterIsNumber
  /\ successCount > 0 /\ failureCount > 0
  /\ Advanced

(***************************************************************************)
(* C3 as stated: a run ends with exit code 0 exactly when the guard ended  *)
(* it or all 14 submissions succeeded, and with exit code 1 exactly when a *)
(* submission failed or the run was aborted for its credential or its      *)
(* settings.                                                               *)
(***************************************************************************)
FatalInit == hist.thrown \in {"token", "settings", "schedule"}

C3_AsStated ==
  Exited =>
    /\ exitCode = 0 <=> (hist.guard = "hit" \/ (LoopDone /\ failureCount = 0))
    /\ exitCode = 1 <=> (failureCount > 0 \/ FatalInit)

(***************************************************************************)
(* C4 as stated: in a dry run that passed the guard no request is sent,    *)
(* every submission returns ok with the pending-page URL, and the files    *)
(* end as after a real run whose submissions all succeeded.                *)
(***************************************************************************)
DryRunRun ==
  /\ runs > 0
  /\ env.DRY_RUN.set
  /\ env.DRY_RUN.s \in {<<"1">>, <<"t","r","u","e">>}
  /\ hist.guard = "passed"

JustSubmitted == hist.submitted > 0 /\ pc \in {"delay", "finalize"}

PendingResult ==
  [ok |-> TRUE,
   url |-> <<"https://lichess.org", "/team/", settings.hostTeamId,
             "/arena/pending">>,
   error |-> <<>>, http |-> FALSE]

\* the files after a run whose counter was not a number: null counts as 0,
\* and from an absent counter every dayNum is NaN, which is written as null
AdvancedFromOther ==
  /\ settingsFile.kind = "object"
  /\ settingsFile.lastTournamentDayNum =
       IF hist.preSettings.lastTournamentDayNum = Null
       THEN Num(HorizonDays) ELSE Null
  /\ stateFile = StateObject(DateStr(RunToday))

DryRunEffects ==
  /\ hist.http = 0
  /\ JustSubmitted => result = PendingResult
  /\ successCount = hist.submitted
  /\ failureCount = 0
  /\ (Exited /\ LoopDone) =>
       /\ exitCode = 0
       /\ IF CounterIsNumber THEN Advanced ELSE AdvancedFromOther

C4_AsStated == (DryRunRun /\ hist.submitted > 0) => DryRunEffects

(***************************************************************************)
(* C4 amended: in a dry run with a token that passes validateOAuthToken    *)
(* that passed the guard and submitted a definition, no request is sent,   *)
(* every submission returns ok with the pending-page URL, and the files    *)
(* end as after a real run whose submissions all succeeded.                *)
(***************************************************************************)
C4_DryRun ==
  (DryRunRun /\ hist.submitted > 0 /\ validateOAuthToken(env.OAUTH_TOKEN.s))
    => DryRunEffects

C4_Witness ==
  /\ DryRunRun /\ validateOAuthToken(env.OAUTH_TOKEN.s)
  /\ Exited /\ LoopDone /\ Advanced /\ hist.http = 0 /\ successCount = 14

(***************************************************************************)
(* C5 as stated: whatever the state file holds, a run with a credential    *)
(* and loadable settings gets to the guard's decision; the state file      *)
(* never aborts it.                                                        *)
(***************************************************************************)
C5_AsStated ==
  (Exited /\ ~NoToken /\ SettingsLoad)
    => (hist.thrown # "state" /\ hist.guard \in {"hit", "passed"})

(***************************************************************************)
(* C6 as stated: a settings file that parses but lacks a required field    *)
(* aborts the run with exit code 1 before a definition is scheduled or     *)
(* submitted and before a file is written.  (A run the guard ends is left  *)
(* aside.)                                                                 *)
(***************************************************************************)
LacksField(f) ==
  /\ f.kind = "object"
  /\ \/ f.hostTeamId = NoHost
     \/ f.lastTournamentDayNum = Undefined
     \/ f.dayStartHour = Undefined
     \/ f.nightStartHour = Undefined

C6_AsStated ==
  (runs > 0 /\ ~NoToken /\ LacksField(hist.preSettings))
    => /\ tournaments = <<>>
       /\ NoSubmission
       /\ NoWrite
       /\ Exited => (exitCode = 1 \/ hist.guard = "hit")

(***************************************************************************)
(* C7: a run without OAUTH_TOKEN (absent or empty), or whose settings file *)
(* cannot be read or parsed, is over at once with a non-zero exit code: no *)
(* guard, no schedule, no submission, no delay, no write.                  *)
(***************************************************************************)
C7_FatalInit ==
  (runs > 0 /\ (NoToken \/ hist.preSettings.kind \in {"absent", "garbage"}))
    => /\ Exited
       /\ exitCode > 0
       /\ hist.guard = "none"
       /\ tournaments = <<>>
       /\ NoSubmission
       /\ NoWrite

C7_Witness ==
  /\ Exited /\ runs > 0 /\ exitCode = 1 /\ NoSubmission /\ NoWrite
  /\ ~NoToken /\ hist.preSettings.kind = "garbage"

(***************************************************************************)
(* C8 as stated: over sequential runs no tournament of the same type and   *)
(* start time is created twice.                                            *)
(***************************************************************************)
C8_AsStated == ~dupSeen

(***************************************************************************)
(* C9: the lastTournamentDayNum of the settings file is never less than it *)
(* was when the current run started, so it never decreases from run to     *)
(* run.                                                                    *)
(***************************************************************************)
\* a < b in JavaScript
JsLess(a, b) ==
  LET num(v) == IF v.tag = "null" THEN 0 ELSE v.n
  IN /\ a.tag \in {"number", "null"}
     /\ b.tag \in {"number", "null"}
     /\ num(a) < num(b)

C9_CounterMonotone ==
  ~JsLess(settingsFile.lastTournamentDayNum,
          hist.preSettings.lastTournamentDayNum)

C9_Witness ==
  /\ runs >= 2 /\ Exited
  /\ JsLess(hist.preSettings.lastTournamentDayNum,
            settingsFile.lastTournamentDayNum)
  /\ hist.preSettings.lastTournamentDayNum.n > 4

(***************************************************************************)
(* C10: a run that passed the guard with a numeric counter n has exactly   *)
(* 14 definitions: for offset 0..6 a Day and then a Night definition, both *)
(* numbered n + 1 + offset and starting on the run's date plus offset days *)
(* at dayStartHour:00 and nightStartHour:00; from counter 4 the numbers    *)
(* are 5,5,6,6,...,11,11; and the k-th submission is the k-th definition.  *)
(***************************************************************************)
PastScheduling ==
  pc \in {"submit", "await", "delay", "finalize", "writeSettings",
          "writeState", "summary"}

ExpectedDefinition(k) ==
  LET offset == (k - 1) \div 2
      n == hist.preSettings.lastTournamentDayNum.n
      type == IF k \in {1, 3, 5, 7, 9, 11, 13} THEN "Day" ELSE "Night"
      date == CivilFromDays(hist.startDay + offset)
      hour == IF type = "Day" THEN hist.preSettings.dayStartHour.n
              ELSE hist.preSettings.nightStartHour.n
  IN [name |-> <<"LMAO", type, Num(n + 1 + offset)>>,
      startDateISO |-> <<date[1], date[2], date[3], hour, 0>>,
      dayNum |-> Num(n + 1 + offset),
      type |-> type]

C10_ScheduleShape ==
  (PastScheduling /\ CounterIsNumber) =>
    /\ Len(tournaments) = 14
    /\ \A k \in 1..14 : tournaments[k] = ExpectedDefinition(k)
    /\ hist.preSettings.lastTournamentDayNum = Num(4) =>
         [k \in 1..14 |-> tournaments[k].dayNum.n]
           = <<5, 5, 6, 6, 7, 7, 8, 8, 9, 9, 10, 10, 11, 11>>
    /\ hist.startDay = DaysFromCivil(2024, 2, 26) =>
         /\ tournaments[1].startDateISO = <<2024, 2, 26, 8, 0>>
         /\ tournaments[8].startDateISO = <<2024, 2, 29, 20, 0>>
         /\ tournaments[9].startDateISO = <<2024, 3, 1, 8, 0>>
    /\ hist.submitted = i
    /\ hist.submitted > 0 =>
         /\ hist.lastName = tournaments[hist.submitted].name
         /\ hist.lastStart = tournaments[hist.submitted].startDateISO

C10_Witness ==
  /\ pc = "finalize" /\ CounterIsNumber /\ hist.submitted = 14
  /\ hist.preSettings.lastTournamentDayNum = Num(4)
  /\ hist.lastName = <<"LMAO", "Night", Num(11)>>
  /\ hist.lastStart = <<2024, 3, 3, 20, 0>>

(***************************************************************************)
(* C11: validateOAuthToken returns false for every string that is empty or *)
(* all whitespace, or has at most 10 characters, or contains "***",        *)
(* "YOUR_TOKEN" or "PLACEHOLDER", or contains a character outside letters, *)
(* digits, hyphen and underscore; it returns true for a 20-character       *)
(* alphanumeric string (one without a marker); and the call changes        *)
(* nothing of the program's state.                                         *)
(***************************************************************************)
C11_Markers == {Stars, YourToken, Placeholder}

C11_MustReject(t) ==
  \/ Len(t) = 0
  \/ \A k \in 1..Len(t) : t[k] \in Whitespace
  \/ Len(t) <= 10
  \/ \E m \in C11_Markers : Includes(t, m)
  \/ \E k \in 1..Len(t) : t[k] \notin (Letters \cup Digits \cup {"-", "_"})

C11_TwentyAlnum(t) ==
  /\ Len(t) = 20
  /\ \A k \in 1..Len(t) : t[k] \in (Letters \cup Digits)
  /\ \A m \in C11_Markers : ~Includes(t, m)

C11_Validated ==
  call.fn = "validateOAuthToken"
    => /\ C11_MustReject(call.token) => ~call.valid
       /\ C11_TwentyAlnum(call.token) => call.valid

C11_TokenValidator ==
  /\ []C11_Validated
  /\ [][call'.fn = "validateOAuthToken" => UNCHANGED mainVars]_vars

\* a token of allowed characters, longer than 10, rejected for its marker
C11_Witness ==
  /\ call.fn = "validateOAuthToken"
  /\ Len(call.token) > 10
  /\ \A k \in 1..Len(call.token) : call.token[k] \in TokenChars
  /\ Includes(call.token, Placeholder)
  /\ ~call.valid

\* a 20-character alphanumeric token, accepted
C11_Accepted ==
  /\ call.fn = "validateOAuthToken"
  /\ C11_TwentyAlnum(call.token)
  /\ call.valid

(***************************************************************************)
(* C12: the loop never ends early.  The k-th submission is the k-th        *)
(* definition whatever the earlier results were, the counters always add   *)
(* up to the number of results so far (successCount the ok ones,           *)
(* failureCount the others), and a run leaves the loop only with 14        *)
(* results: successCount + failureCount = 14 at Finalizing and after.      *)
(***************************************************************************)
AfterLoop ==
  \/ pc \in {"finalize", "writeSettings", "writeState", "summary"}
  \/ pc = "exited" /\ hist.guard = "passed" /\ hist.thrown = "none"

C12_NoEarlyAbort ==
  /\ PastScheduling =>
       /\ successCount = hist.oks
       /\ failureCount = hist.submitted - hist.oks
       /\ i = hist.submitted
       /\ hist.submitted <= 14
       /\ hist.submitted > 0 =>
            hist.lastName = tournaments[hist.submitted].name
  /\ AfterLoop =>
       /\ hist.submitted = 14
       /\ successCount + failureCount = 14
       /\ successCount = hist.oks

\* the loop went on after failures: 13 failed submissions and one success
C12_Witness ==
  /\ pc = "finalize"
  /\ hist.submitted = 14
  /\ successCount = 1 /\ failureCount = 13
  /\ result.ok

(***************************************************************************)
(* C13: the first submission of a run is not preceded by a delay; every    *)
(* later one starts right after exactly one completed delay of 10 seconds  *)
(* (13 delays for 14 submissions); and a submission starts only after the  *)
(* previous one has returned, so at most one is in flight.                 *)
(***************************************************************************)
C13_Spacing ==
  (PastScheduling \/ AfterLoop) =>
    /\ hist.inFlight = (IF pc = "await" THEN 1 ELSE 0)
    /\ hist.started = hist.submitted + hist.inFlight
    /\ hist.waited = hist.delays * 10000
    /\ hist.delays = (IF pc = "submit" THEN hist.started
                      ELSE IF hist.started = 0 THEN 0 ELSE hist.started - 1)
    /\ pc = "await" => (hist.delayedBefore <=> hist.started > 1)
    /\ pc = "submit" => (hist.delayedBefore <=> hist.started > 0)
    /\ pc = "delay" => ~hist.delayedBefore
    /\ AfterLoop => (hist.delays = 13 /\ hist.started = 14)

\* the last submission is in flight, after the 13th delay
C13_Witness ==
  /\ pc = "await"
  /\ hist.started = 14 /\ hist.submitted = 13
  /\ hist.delays = 13 /\ hist.waited = 130000 /\ hist.delayedBefore

\* the first submission is in flight, and no delay has happened
C13_First ==
  /\ pc = "await" /\ hist.started = 1 /\ hist.delays = 0

(***************************************************************************)
(* C14: within a run no file is written, or begun to be written, before    *)
(* all 14 submissions have returned; each file is written at most once per *)
(* run; and a run that is killed during Scheduling or Submitting (a call   *)
(* in flight or not, a delay pending or not) leaves both files with the    *)
(* content they had when the run started.                                  *)
(***************************************************************************)
FilesTouched ==
  \/ hist.settingsWrites > 0
  \/ hist.stateWrites > 0
  \/ settingsFile # hist.preSettings
  \/ stateFile # hist.preState

KilledInLoop ==
  pc = "killed" /\ hist.killedAt \in {"schedule", "submit", "await", "delay"}

C14_PersistAtEnd ==
  (runs > 0) =>
    /\ FilesTouched => (hist.submitted = 14 /\ hist.inFlight = 0)
    /\ hist.settingsWrites <= 1
    /\ hist.stateWrites <= 1
    /\ KilledInLoop => NoWrite

\* killed with the last call in flight, after 13 created tournaments
C14_Witness ==
  /\ pc = "killed" /\ hist.killedAt = "await"
  /\ hist.submitted = 13 /\ hist.oks = 13 /\ hist.inFlight = 1
  /\ NoWrite

(***************************************************************************)
(* C15: a run that passed the guard and ended with successCount = 0 leaves *)
(* nothing behind that stops the next run: the next run, started with a    *)
(* non-empty OAUTH_TOKEN on the same or a later day, loads the settings,   *)
(* is not skipped by the guard, builds 14 definitions with the same dayNum *)
(* values and submits all of them.                                         *)
(***************************************************************************)
C15_RetryAfterTotalFailure ==
  (hist.prevZero /\ ~NoToken) =>
    /\ hist.thrown = "none"
    /\ hist.guard # "hit"
    /\ (PastScheduling \/ Exited) =>
         /\ Len(tournaments) = 14
         /\ [k \in 1..14 |-> tournaments[k].dayNum] = hist.prevDayNums
    /\ Exited => hist.submitted = 14

\* the retry on the next day, this time with 14 created tournaments
C15_Witness ==
  /\ hist.prevZero /\ ~NoToken
  /\ Exited /\ hist.submitted = 14 /\ successCount = 14
  /\ hist.startDay = DaysFromCivil(2024, 2, 27)
  /\ [k \in 1..14 |-> tournaments[k].dayNum] = hist.prevDayNums
  /\ tournaments[1].dayNum = Num(5)

(***************************************************************************)
(* C16: a call of createTeamBattle with a token that validateOAuthToken    *)
(* rejects returns {ok: false, error: the invalid-token message} and sends *)
(* no HTTP request, in a dry run as in a real one; a request is sent only  *)
(* with a validated token and dryRun false.                                *)
(***************************************************************************)
C16_TokenBeforeNetwork ==
  call.fn = "createTeamBattle" =>
    /\ ~call.valid =>
         /\ ~call.ret.ok
         /\ call.ret.error = <<"Invalid or missing OAuth token.">>
         /\ call.ret.url = <<>>
         /\ ~call.ret.http
    /\ call.ret.http => (call.valid /\ ~call.p.dryRun)
    /\ (call.valid /\ ~call.p.dryRun) => call.ret.http

\* a dry-run call with the placeholder token: refused, nothing sent
C16_Witness ==
  /\ call.fn = "createTeamBattle"
  /\ call.p.dryRun
  /\ call.token = YourToken \o <<"a", "b">>
  /\ ~call.ret.ok /\ ~call.ret.http

(***************************************************************************)
(* C17: every call of createTeamBattle returns a result, and every ok      *)
(* result has a url and every other one an error.  For a request that was  *)
(* sent: a non-2xx answer gives {ok: false, error: "<status>: <body>"}; a  *)
(* failed fetch or a 2xx answer whose body is not JSON gives {ok: false}   *)
(* with the error as a string; a 2xx answer with JSON gives {ok: true}     *)
(* with the url <server>/tournament/<id> if the JSON has an id, else the   *)
(* Location header if there is one, else "unknown".                        *)
(***************************************************************************)
C17_ResultMapping ==
  call.fn = "createTeamBattle" =>
    LET r == call.ret
        res == Response(call.resp)
        twoXX == res.status >= 200 /\ res.status < 300
    IN /\ r.ok => (r.url # <<>> /\ r.error = <<>>)
       /\ ~r.ok => (r.error # <<>> /\ r.url = <<>>)
       /\ (call.valid /\ ~call.p.dryRun) =>
            /\ res.throws => (~r.ok /\ r.error = <<"FetchError">>)
            /\ (~res.throws /\ ~twoXX) =>
                 (~r.ok /\ r.error = <<ToString(res.status), ": ", res.text>>)
            /\ (~res.throws /\ twoXX /\ res.json = "unparseable") =>
                 (~r.ok /\ r.error = <<"SyntaxError">>)
            /\ (~res.throws /\ twoXX /\ res.json # "unparseable") =>
                 /\ r.ok
                 /\ res.id # "" =>
                      r.url = <<call.p.server, "/tournament/", res.id>>
                 /\ (res.id = "" /\ res.location # "") =>
                      r.url = <<res.location>>
                 /\ (res.id = "" /\ res.location = "") =>
                      r.url = <<"unknown">>
            /\ call.resp = "rejected" =>
                 r.error = <<"429", ": ", "Too Many Requests">>
            /\ call.resp = "created-id-location" =>
                 r.url = <<"https://lichess.org", "/tournament/", "Xy7bQ2mZ">>

\* an answer with an id and a Location header: the id makes the url
C17_Witness ==
  /\ call.fn = "createTeamBattle"
  /\ call.resp = "created-id-location"
  /\ call.ret.ok /\ call.ret.http
  /\ call.ret.url = <<"https://lichess.org", "/tournament/", "Xy7bQ2mZ">>

(***************************************************************************)
(* C18: the form that createTeamBattle builds has exactly one              *)
(* teamBattleByTeam field, whose value is hostTeamId, and one teams[]      *)
(* field for each non-empty element of teams that differs from hostTeamId, *)
(* in the order of teams; no teams[] field holds hostTeamId; with          *)
(* teams = [hostTeamId], as main passes it, the form has no teams[] field. *)
(***************************************************************************)
RECURSIVE C18_Invited(_, _)
C18_Invited(teams, host) ==
  IF teams = <<>> THEN <<>>
  ELSE LET rest == C18_Invited(Tail(teams), host)
       IN IF Head(teams) = "" \/ Head(teams) = host THEN rest
          ELSE <<Head(teams)>> \o rest

C18_Fields(body, field) ==
  LET at == SelectSeq([k \in 1..Len(body) |-> k],
                      LAMBDA k : body[k][1] = field)
  IN [k \in 1..Len(at) |-> body[at[k]][2]]

C18_SelfInvitation ==
  (call.fn = "createTeamBattle" /\ call.valid) =>
    /\ C18_Fields(call.body, "teamBattleByTeam") = <<call.p.hostTeamId>>
    /\ C18_Fields(call.body, "teams[]")
         = C18_Invited(call.p.teams, call.p.hostTeamId)
    /\ \A k \in 1..Len(call.body) :
         call.body[k][1] = "teams[]" => call.body[k][2] # call.p.hostTeamId
    /\ call.p.teams = <<call.p.hostTeamId>> =>
         C18_Fields(call.body, "teams[]") = <<>>

\* the host and another team: only the other team is invited
C18_Witness ==
  /\ call.fn = "createTeamBattle" /\ call.valid
  /\ call.p.hostTeamId = "team-a"
  /\ call.p.teams = <<"team-a", "team-b">>
  /\ call.body[3] = <<"teamBattleByTeam", "team-a">>
  /\ C18_Fields(call.body, "teams[]") = <<"team-b">>

\* two other teams: both are invited, in their order
C18_Ordered ==
  /\ call.fn = "createTeamBattle" /\ call.valid
  /\ call.p.hostTeamId = "team-a"
  /\ call.p.teams = <<"team-b", "lmao-teamfights">>
  /\ C18_Fields(call.body, "teams[]") = <<"team-b", "lmao-teamfights">>

\* the forms that main builds: no teams[] field, one teamBattleByTeam field
C18_MainRequests ==
  hist.lastBody # <<>> =>
    /\ C18_Fields(hist.lastBody, "teams[]") = <<>>
    /\ C18_Fields(hist.lastBody, "teamBattleByTeam")
         = <<hist.preSettings.hostTeamId>>

(***************************************************************************)
(* C19 as stated: however a run ends (normal exit, a failing file write, a *)
(* kill at any point), the settings file's counter has been advanced by    *)
(* the run if and only if the state file's lastCreationDate has been set   *)
(* to the run's date.                                                      *)
(***************************************************************************)
RunEnded == runs > 0 /\ pc \in {"exited", "killed"}

CounterAdvanced ==
  /\ settingsFile.kind = "object"
  /\ settingsFile.lastTournamentDayNum
       # hist.preSettings.lastTournamentDayNum

DateSet ==
  /\ stateFile # hist.preState
  /\ stateFile.kind = "object"
  /\ stateFile.lastCreationDate = DateStr(RunToday)

C19_AsStated == RunEnded => (CounterAdvanced <=> DateSet)

\* the same, for the runs that no kill and no failing write ends
C19_WithoutFaults ==
  (RunEnded /\ pc = "exited" /\ hist.thrown # "write")
    => (CounterAdvanced <=> DateSet)

(***************************************************************************)
(* C20: over runs that each end normally, a run with at least one success  *)
(* that started from the counter n submits the numbers n + 1 .. n + 7 and  *)
(* leaves the counter n + 7; the next run that builds a schedule starts at *)
(* the number after the largest one of the last such run; and no run       *)
(* submits a number that a run with a success has submitted before.        *)
(***************************************************************************)
HasSchedule == (PastScheduling \/ Exited) /\ tournaments # <<>>

C20_NoReuse ==
  /\ HasSchedule =>
       \A k \in 1..Len(tournaments) :
         IsNum(tournaments[k].dayNum) =>
           tournaments[k].dayNum.n > hist.usedUpTo
  /\ (HasSchedule /\ CounterIsNumber) =>
       LET n == hist.preSettings.lastTournamentDayNum.n
       IN /\ {tournaments[k].dayNum.n : k \in 1..Len(tournaments)}
               = (n + 1)..(n + 7)
          /\ hist.usedUpTo > 0 => n = hist.usedUpTo
          /\ (Exited /\ hist.thrown = "none" /\ successCount > 0) =>
               settingsFile.lastTournamentDayNum = Num(n + 7)

\* the third run with a success in a row: 5..11, 12..18, then 19..25
C20_Witness ==
  /\ Exited /\ hist.thrown = "none" /\ successCount > 0
  /\ hist.usedUpTo = 18
  /\ tournaments[1].dayNum = Num(19)
  /\ settingsFile.lastTournamentDayNum = Num(25)

=============================================================================
